---------------------------- MODULE Spec2Model ----------------------------
(***************************************************************************)
(* A model of the graphs package: the shared eigen-solving routine of      *)
(* graphs/embed.py (_lapeig, laplacian_eigenmaps,                          *)
(* locality_preserving_projections, spring_layout), the concrete methods   *)
(* of graphs/base/base.py (adj_list, degree), and the operations that the  *)
(* tests exercise (greedy_coloring, neighbor_graph).                       *)
(*                                                                         *)
(* Each routine is a state machine over its call frame: one variable per   *)
(* routine holds the frame's locals under the names the source gives them, *)
(* pc is the position in the routine, G is the Graph object.  Every        *)
(* routine has its own specification (SpecLapeig, SpecSpring, ...); the    *)
(* frames of the other routines stay Idle in it.                           *)
(*                                                                         *)
(* Numbers.  Eigenvalues, thresholds, temperatures and weights are reals   *)
(* in the source.  Eigenvalues and thresholds are modelled as integers on  *)
(* a common scale (only their order matters to the code); temperatures as  *)
(* numerators over the common denominator that linspace divides by; edge   *)
(* weights as fixed point numbers with WeightScale units to 1, over a      *)
(* domain on which the reciprocal is exact.                                *)
(***************************************************************************)
EXTENDS Integers, Sequences, FiniteSets, TLC

VARIABLES pc, G, eig, spring, col, knn, deg, gens, lpp

vars == <<pc, G, eig, spring, col, knn, deg, gens, lpp>>

\* The frame of a routine that is not running.  solver_vals, in the frame of
\* _lapeig, is a history field: the eigenvalues in the order the solver gave.
Idle == [idle |-> TRUE]

(***************************************************************************)
(* Helpers on sequences and matrices.                                      *)
(***************************************************************************)
Range(s) == {s[j] : j \in DOMAIN s}

Min(a, b) == IF a < b THEN a ELSE b

Max(a, b) == IF a < b THEN b ELSE a

Abs(a) == IF a < 0 THEN 0 - a ELSE a

\* The permutations of 1..n, as sequences.
Perms(n) == {p \in [1..n -> 1..n] : \A a, b \in 1..n : a # b => p[a] # p[b]}

\* The non-decreasing sequences of length n over the set S.
Ascending(S, n) == {s \in [1..n -> S] : \A a \in 1..n, b \in 1..n : a < b => s[a] <= s[b]}

RECURSIVE SumTo(_, _)
\* f[1] + ... + f[n]
SumTo(f, n) == IF n = 0 THEN 0 ELSE f[n] + SumTo(f, n - 1)

(***************************************************************************)
(* The shared eigen-solving routine, embed.py _lapeig.                     *)
(*                                                                         *)
(* The matrix L is known to the routine only through its size, whether it  *)
(* is sparse, and its eigenpairs.  L.eig is the spectrum, ascending;       *)
(* eigenpair j is (L.eig[j], column j): a column is named by the index of  *)
(* its eigenpair, so that the pairing of values and columns is observable. *)
(***************************************************************************)
MaxN == 4

MaxEig == 2

MaxVecs == 2

\* The eigenvalues of a Laplacian are not negative.
EigVals == 0..MaxEig

Thresholds == 0..MaxEig

Matrices == UNION {[n : {n}, sparse : BOOLEAN, eig : Ascending(EigVals, n)] : n \in 1..MaxN}

\* scipy.sparse.issparse(L)
issparse(M) == M.sparse

\* The number of eigenpairs asked of the sparse solver (embed.py line 59).
EigshK(M, given, m) == IF given THEN m + 1 ELSE M.n - 1

\* eigsh rejects a request for no eigenpair or for as many as the matrix has
\* rows (ARPACK computes at most n - 1); any other request may still fail to
\* converge.
EigshRejects(M, k) == k < 1 \/ k >= M.n

\* eigsh(L, k, which='SM'): some k eigenpairs of smallest magnitude (a tie at
\* the cut is broken either way), returned in an order that is not guaranteed.
\* A result is a sequence of eigenpair indices.
EigshResults(M, k) ==
  {r \in [1..k -> 1..M.n] :
     /\ \A a, b \in 1..k : a # b => r[a] # r[b]
     /\ \A j \in 1..M.n : j \notin Range(r) =>
          \A a \in 1..k : Abs(M.eig[r[a]]) <= Abs(M.eig[j])}

\* eigh(L.A) or eigh(L): all eigenpairs, ascending by eigenvalue (LAPACK's order).
EighResult(M) == [j \in 1..M.n |-> j]

\* The permutations of each length up to MaxN.
AllPerms == [n \in 0..MaxN |-> Perms(n)]

\* A faulty variant of argsort: the order is left as the solver gave it.
ArgsortUnsorted(v) == {[j \in 1..Len(v) |-> j]}

\* np.argsort(vals): an index order that sorts vals; numpy's default sort is
\* not stable, so equal values come in either order.
Argsort(v) ==
  {p \in AllPerms[Len(v)] : \A a, b \in 1..Len(v) : a < b => v[p[a]] <= v[p[b]]}

RECURSIVE Bisect(_, _, _, _)
\* The binary search of np.searchsorted (side='left') on positions lo..hi-1,
\* counted from 0 as the source counts them.
Bisect(v, x, lo, hi) ==
  IF lo >= hi THEN lo
  ELSE LET mid == (lo + hi) \div 2
       IN IF v[mid + 1] < x THEN Bisect(v, x, mid + 1, hi) ELSE Bisect(v, x, lo, mid)

\* np.searchsorted(vals, val_thresh)
searchsorted(v, x) == Bisect(v, x, 0, Len(v))

\* A Python slice s[i:j] of a sequence (0-based, clamped to the length).
Slice(s, i, j) == SubSeq(s, Min(i, Len(s)) + 1, Min(j, Len(s)))

InitLapeig ==
  /\ pc = "lapeig"
  /\ eig \in [L : Matrices, given : BOOLEAN, num_vecs : 1..MaxVecs,
              return_vals : BOOLEAN, val_thresh : Thresholds,
              solver_vals : {<<>>}, vals : {<<>>}, vecs : {<<>>}, embedding : {<<>>}, out_vals : {<<>>},
              warned : {FALSE}, tried : {{}}, failed : {{}}]
  /\ eig.given \/ eig.num_vecs = 1
  /\ G = Idle /\ spring = Idle /\ col = Idle /\ knn = Idle /\ deg = Idle
  /\ gens = Idle /\ lpp = Idle

othersLapeig == <<G, spring, col, knn, deg, gens, lpp>>

\* embed.py lines 57-62: the sparse solver answers.
EigshSolves ==
  /\ pc = "lapeig" /\ issparse(eig.L)
  /\ LET k == EigshK(eig.L, eig.given, eig.num_vecs)
     IN /\ ~EigshRejects(eig.L, k)
        /\ \E r \in EigshResults(eig.L, k) :
             eig' = [eig EXCEPT !.vecs = r,
                                !.vals = [j \in 1..k |-> eig.L.eig[r[j]]],
                                !.solver_vals = [j \in 1..k |-> eig.L.eig[r[j]]],
                                !.tried = @ \cup {"eigsh"}]
  /\ pc' = "solved"
  /\ UNCHANGED othersLapeig

\* A faulty variant of EigshFails: the failure of the sparse solver is not caught.
EigshFailsFatal ==
  /\ pc = "lapeig" /\ issparse(eig.L)
  /\ eig' = [eig EXCEPT !.tried = @ \cup {"eigsh"}, !.failed = @ \cup {"eigsh"}]
  /\ pc' = "raised"
  /\ UNCHANGED othersLapeig

\* embed.py lines 62-64: the sparse solver raises (always possible: it may not
\* converge); the bare except catches it and warns.
EigshFails ==
  /\ pc = "lapeig" /\ issparse(eig.L)
  /\ eig' = [eig EXCEPT !.tried = @ \cup {"eigsh"}, !.failed = @ \cup {"eigsh"},
                        !.warned = TRUE]
  /\ pc' = "fallback"
  /\ UNCHANGED othersLapeig

\* embed.py line 65 (after the warning) and line 67 (a matrix that is not
\* sparse): the dense solver answers.
EighSolves ==
  /\ \/ pc = "fallback"
     \/ pc = "lapeig" /\ ~issparse(eig.L)
  /\ eig' = [eig EXCEPT !.vecs = EighResult(eig.L),
                        !.vals = [j \in 1..eig.L.n |-> eig.L.eig[EighResult(eig.L)[j]]],
                        !.solver_vals = [j \in 1..eig.L.n |-> eig.L.eig[EighResult(eig.L)[j]]],
                        !.tried = @ \cup {"eigh"}]
  /\ pc' = "solved"
  /\ UNCHANGED othersLapeig

\* embed.py lines 65, 67: the dense solver raises; nothing catches it.
EighFails ==
  /\ \/ pc = "fallback"
     \/ pc = "lapeig" /\ ~issparse(eig.L)
  /\ eig' = [eig EXCEPT !.tried = @ \cup {"eigh"}, !.failed = @ \cup {"eigh"}]
  /\ pc' = "raised"
  /\ UNCHANGED othersLapeig

\* embed.py lines 68-80: sort the eigenpairs, drop those below the threshold,
\* take the next num_vecs (all the rest when num_vecs is None), return.
SortAndSlice ==
  /\ pc = "solved"
  /\ \E idx \in Argsort(eig.vals) :
       LET svecs == [j \in 1..Len(idx) |-> eig.vecs[idx[j]]]
           svals == [j \in 1..Len(idx) |-> eig.vals[idx[j]]]
           i == searchsorted(svals, eig.val_thresh)
           m == IF eig.given THEN eig.num_vecs ELSE Len(svals) - i
       IN eig' = [eig EXCEPT !.vecs = svecs, !.vals = svals,
                             !.embedding = Slice(svecs, i, i + m),
                             !.out_vals = IF eig.return_vals
                                          THEN Slice(svals, i, i + m) ELSE <<>>]
  /\ pc' = "returned"
  /\ UNCHANGED othersLapeig

NextLapeig == EigshSolves \/ EigshFails \/ EighSolves \/ EighFails \/ SortAndSlice

SpecLapeig == InitLapeig /\ [][NextLapeig]_vars

(***************************************************************************)
(* The Graph object.  base.py declares the contract and leaves pairs,      *)
(* matrix, add_edges and symmetrize to the variants; the variants are      *)
(* modelled after the contract of the specification:                       *)
(*   kind     "pairs" | "dense" | "sparse", the backing storage            *)
(*   n        the number of vertices, numbered 0..n-1                      *)
(*   store    the backing storage: a sequence of <<from, to, weight>>      *)
(*            for "pairs", a matrix [0..n-1 -> [0..n-1 -> weight]] for     *)
(*            "dense" and "sparse" (0: no edge)                            *)
(*   weighted what is_weighted() answers                                   *)
(* A weight is a fixed point number, WeightScale units to 1.               *)
(***************************************************************************)
WeightScale == 2

\* The weight 1, which an edge of an unweighted graph carries.
One == WeightScale

Kinds == {"pairs", "dense", "sparse"}

Vertices(n) == 0..(n - 1)

SquareMatrices(n, W) == [Vertices(n) -> [Vertices(n) -> W]]

RECURSIVE PairsFrom(_, _, _)
\* The edges of matrix A from position c on (row-major, c = i * n + j), as
\* <<from, to, weight>>: np.argwhere order, the order of the tests' PAIRS.
PairsFrom(A, n, c) ==
  IF c >= n * n THEN <<>>
  ELSE LET i == c \div n
           j == c % n
       IN (IF A[i][j] # 0 THEN <<(<<i, j, A[i][j]>>)>> ELSE <<>>) \o PairsFrom(A, n, c + 1)

RECURSIVE WeightSum(_, _, _)
\* The sum of the weights of the pairs from i to j: duplicate pairs add up.
WeightSum(ps, i, j) ==
  IF ps = <<>> THEN 0
  ELSE (IF Head(ps)[1] = i /\ Head(ps)[2] = j THEN Head(ps)[3] ELSE 0)
         + WeightSum(Tail(ps), i, j)

\* Graph.from_edge_pairs(pairs, num_vertices, weights)
from_edge_pairs(ps, n, weighted) ==
  [kind |-> "pairs", n |-> n, store |-> ps, weighted |-> weighted]

\* Graph.from_adj_matrix(A), dense for an array and sparse for a sparse matrix
from_adj_matrix(A, n, sparse, weighted) ==
  [kind |-> IF sparse THEN "sparse" ELSE "dense", n |-> n, store |-> A,
   weighted |-> weighted]

\* The graph over matrix A with the backing kind.
MakeGraph(kind, A, n, weighted) ==
  IF kind = "pairs" THEN from_edge_pairs(PairsFrom(A, n, 0), n, weighted)
  ELSE from_adj_matrix(A, n, kind = "sparse", weighted)

\* G.num_vertices()
num_vertices(g) == g.n

\* G.is_weighted()
is_weighted(g) == g.weighted

\* The values of G.matrix(...), whatever the format asked for.
MatrixOf(g) ==
  IF g.kind = "pairs"
  THEN [i \in Vertices(g.n) |-> [j \in Vertices(g.n) |-> WeightSum(g.store, i, j)]]
  ELSE g.store

\* Whether G.matrix(copy=copy, **formats) hands out the graph's own storage:
\* with copy=False a matrix-backed graph returns its own matrix when its
\* layout is among the formats asked for (a sparse one has one of the three
\* sparse layouts); any other request converts, which builds a new matrix.
MatrixIsShared(g, copy, formats) ==
  /\ ~copy
  /\ \/ g.kind = "dense" /\ "dense" \in formats
     \/ g.kind = "sparse" /\ "dense" \notin formats
          /\ formats \cap {"csr", "csc", "coo"} # {}

\* The graph with the values of its matrix storage replaced by A (a write
\* through a shared view).
WithStore(g, A) == [g EXCEPT !.store = A]

(***************************************************************************)
(* embed.py spring_layout.  The positions X are random reals moved by      *)
(* real-valued forces; the model keeps how many times X was updated        *)
(* (steps) and with which temperatures (used), not the coordinates.        *)
(* A temperature is a numerator over the denominator spring.div.           *)
(***************************************************************************)
SpringV == 2

MaxIter == 3

MaxTemp == 2

\* Weights 1/WeightScale, 1 and WeightScale: a domain closed under 1/w.
SpringWeights == {1, WeightScale, WeightScale * WeightScale}

\* 1. / w for a stored entry, in fixed point.
Recip(w) == (WeightScale * WeightScale) \div w

\* The symmetric matrices without self-edges over SpringWeights.
SpringMatrices(n) ==
  {A \in SquareMatrices(n, SpringWeights \cup {0}) :
     \A i, j \in Vertices(n) : A[i][i] = 0 /\ A[i][j] = A[j][i]}

\* np.linspace(start, stop, num), num >= 2: num evenly spaced values from
\* start to stop inclusive, as numerators over num - 1.
linspace(start, stop, num) ==
  [j \in 1..num |-> start * (num - 1) + (j - 1) * (stop - start)]

\* A faulty variant of CoolingScheme: only the final 0 is cut off.
CoolingSchemeCutOne(initial_temp, iterations) ==
  LET ls == linspace(initial_temp, 0, iterations + 2)
  IN SubSeq(ls, 1, Len(ls) - 1)

\* np.linspace(initial_temp, 0, iterations+2)[:-2]  (embed.py line 113)
CoolingScheme(initial_temp, iterations) ==
  LET ls == linspace(initial_temp, 0, iterations + 2)
  IN SubSeq(ls, 1, Len(ls) - 2)

InitSpring ==
  /\ pc = "spring"
  /\ \E kind \in Kinds, A \in SpringMatrices(SpringV), w \in BOOLEAN :
       /\ w \/ \A i, j \in Vertices(SpringV) : A[i][j] \in {0, One}
       /\ G = MakeGraph(kind, A, SpringV, w)
  /\ \E it \in 0..MaxIter, temp \in 1..MaxTemp :
       spring = [G0 |-> MatrixOf(G), iterations |-> it, initial_temp |-> temp,
                 S |-> [shared |-> FALSE, data |-> <<>>],
                 cooling_scheme |-> <<>>, div |-> it + 1, steps |-> 0, used |-> <<>>]
  /\ eig = Idle /\ col = Idle /\ knn = Idle /\ deg = Idle /\ gens = Idle /\ lpp = Idle

othersSpring == <<eig, col, knn, deg, gens, lpp>>

\* embed.py lines 105-109: X is drawn, S = G.matrix(csr=True, csc=True, coo=True).
SpringStart ==
  /\ pc = "spring"
  /\ spring' = [spring EXCEPT
       !.S = [shared |-> MatrixIsShared(G, FALSE, {"csr", "csc", "coo"}),
              data |-> MatrixOf(G)]]
  /\ pc' = "similarity"
  /\ UNCHANGED <<G, othersSpring>>

\* embed.py line 110: S.data[:] = 1. / S.data, in place: a write to the
\* stored entries of S, and so to the graph's own matrix when S is that matrix.
ConvertToSimilarity ==
  /\ pc = "similarity"
  /\ LET n == num_vertices(G)
         data == [i \in Vertices(n) |-> [j \in Vertices(n) |->
                    IF spring.S.data[i][j] = 0 THEN 0 ELSE Recip(spring.S.data[i][j])]]
     IN /\ spring' = [spring EXCEPT !.S.data = data]
        /\ G' = IF spring.S.shared THEN WithStore(G, data) ELSE G
  /\ pc' = "schedule"
  /\ UNCHANGED othersSpring

\* embed.py lines 111-113: the nonzero indices are cached, the cooling scheme set.
SetCoolingScheme ==
  /\ pc = "schedule"
  /\ spring' = [spring EXCEPT
       !.cooling_scheme = CoolingScheme(spring.initial_temp, spring.iterations)]
  /\ pc' = "loop"
  /\ UNCHANGED <<G, othersSpring>>

\* embed.py lines 116-126: one pass of the loop, X += displacement * t / length.
SpringStep ==
  /\ pc = "loop"
  /\ spring.steps < Len(spring.cooling_scheme)
  /\ spring' = [spring EXCEPT !.steps = @ + 1,
                              !.used = Append(@, spring.cooling_scheme[spring.steps + 1])]
  /\ UNCHANGED <<pc, G, othersSpring>>

\* embed.py line 127: the loop is over, return X.
SpringReturn ==
  /\ pc = "loop"
  /\ spring.steps = Len(spring.cooling_scheme)
  /\ pc' = "returned"
  /\ UNCHANGED <<G, spring, othersSpring>>

NextSpring ==
  SpringStart \/ ConvertToSimilarity \/ SetCoolingScheme \/ SpringStep \/ SpringReturn

SpecSpring == InitSpring /\ [][NextSpring]_vars

(***************************************************************************)
(* base.py adj_list and greedy_coloring.  greedy_coloring is a method of   *)
(* the label mixin, known here by its test (test_label.py) and by the      *)
(* specification: vertices in ascending index order, each given the        *)
(* smallest positive colour that no already-coloured neighbour has, the    *)
(* neighbours of a vertex being its element of adj_list().  The frame      *)
(* holds the three graphs of the test's setUp, built from one adjacency    *)
(* matrix, and colours them one after the other.  Colour 0: not coloured.  *)
(***************************************************************************)
ColorV == 3

\* A faulty variant of AdjRow: the nonzero entries of the column, not of the row.
AdjColumn(A, n, i) == {j \in Vertices(n) : A[j][i] # 0}

\* row.nonzero()[-1] for row i of the matrix (base.py line 52): the indices j
\* with a nonzero entry (i, j).
AdjRow(A, n, i) == {j \in Vertices(n) : A[i][j] # 0}

RECURSIVE FirstFree(_, _)
\* The smallest colour from c on that is not in the set used: the loop
\* `for c in count(1): if c not in nbr_colors`.
FirstFree(used, c) == IF c \notin used THEN c ELSE FirstFree(used, c + 1)

\* The adjacency matrix of the tests: ADJ of test_label.py.
TestADJ ==
  LET rows == << <<0, 1, 1, 0, 0>>, <<1, 0, 1, 0, 0>>, <<1, 1, 0, 0, 0>>,
                 <<0, 0, 0, 0, 1>>, <<0, 0, 0, 1, 0>> >>
  IN [i \in Vertices(Len(rows)) |-> [j \in Vertices(Len(rows)) |-> rows[i + 1][j + 1] * One]]

\* The graphs of TestLabel.setUp over matrix A: from_edge_pairs(PAIRS),
\* from_adj_matrix(ADJ), from_adj_matrix(coo_matrix(ADJ)).
TestGraphs(A, n) ==
  << from_edge_pairs(PairsFrom(A, n, 0), n, FALSE),
     from_adj_matrix(A, n, FALSE, FALSE),
     from_adj_matrix(A, n, TRUE, FALSE) >>

ColorFrame(A, n) ==
  [A |-> A, n |-> n, graphs |-> TestGraphs(A, n), g |-> 1, i |-> 0,
   coloring |-> [g \in 1..3 |-> [v \in Vertices(n) |-> 0]]]

InitColor ==
  /\ pc = "coloring"
  /\ \/ \E A \in SquareMatrices(ColorV, {0, One}) : col = ColorFrame(A, ColorV)
     \/ col = ColorFrame(TestADJ, Cardinality(DOMAIN TestADJ))
  /\ G = Idle /\ eig = Idle /\ spring = Idle /\ knn = Idle /\ deg = Idle
  /\ gens = Idle /\ lpp = Idle

othersColor == <<G, eig, spring, knn, deg, gens, lpp>>

\* One pass of the loop of greedy_coloring over enumerate(self.adj_list()).
ColorVertex ==
  /\ pc = "coloring"
  /\ col.i < col.n
  /\ LET nbrs == AdjRow(MatrixOf(col.graphs[col.g]), col.n, col.i)
         nbr_colors == {col.coloring[col.g][j] : j \in nbrs}
     IN col' = [col EXCEPT !.coloring[col.g][col.i] = FirstFree(nbr_colors, 1),
                           !.i = @ + 1]
  /\ UNCHANGED <<pc, othersColor>>

\* greedy_coloring returns for one graph; the test goes on to the next graph.
ColorReturn ==
  /\ pc = "coloring"
  /\ col.i = col.n
  /\ IF col.g < 3
     THEN col' = [col EXCEPT !.g = @ + 1, !.i = 0] /\ pc' = pc
     ELSE col' = col /\ pc' = "returned"
  /\ UNCHANGED othersColor

NextColor == ColorVertex \/ ColorReturn

SpecColor == InitColor /\ [][NextColor]_vars

(***************************************************************************)
(* construction.neighbor_graph with k given, epsilon not given, binary     *)
(* weighting and symmetrize=False, known here by its tests                 *)
(* (test_neighbors.py) and by the specification: each point is connected   *)
(* to its k nearest neighbours, itself excluded, ties among equal          *)
(* distances broken by index order.  Points are pairs of integers;         *)
(* distances are compared by their squares.                                *)
(***************************************************************************)
MaxPts == 3

MaxCoord == 1

MaxK == 3

Points == (0..MaxCoord) \X (0..MaxCoord)

\* self.pts of TestNeighbors.setUp
TestPts == << <<0, 0>>, <<1, 2>>, <<3, 2>>, <<0 - 1, 0>> >>

\* The squared Euclidean distance of two points.
SqDist(p, q) == (p[1] - q[1]) * (p[1] - q[1]) + (p[2] - q[2]) * (p[2] - q[2])

\* The pairwise squared distances of the points, indexed from 0.
pairwise_distances(pts) ==
  [i \in Vertices(Len(pts)) |-> [j \in Vertices(Len(pts)) |-> SqDist(pts[i + 1], pts[j + 1])]]

\* Point a comes before point b among the neighbours of i: nearer, or as near
\* and of smaller index.
Nearer(D, i, a, b) == D[i][a] < D[i][b] \/ (D[i][a] = D[i][b] /\ a < b)

\* A faulty variant of KNearest: the point itself is not excluded.
KNearestWithSelf(D, n, i, k) ==
  {j \in Vertices(n) :
     Cardinality({l \in Vertices(n) : l # j /\ Nearer(D, i, l, j)}) < k}

\* The k nearest neighbours of point i, itself excluded: the other points
\* that fewer than k other points come before.
KNearest(D, n, i, k) ==
  {j \in Vertices(n) \ {i} :
     Cardinality({l \in Vertices(n) \ {i} : l # j /\ Nearer(D, i, l, j)}) < k}

KnnFrame(pts, k) ==
  [pts |-> pts, k |-> k, n |-> Len(pts), dist |-> <<>>, i |-> 0,
   adj |-> [i \in Vertices(Len(pts)) |-> [j \in Vertices(Len(pts)) |-> 0]]]

InitKnn ==
  /\ pc = "neighbor_graph"
  /\ \/ \E n \in 1..MaxPts : \E pts \in [1..n -> Points], k \in 1..MaxK :
          knn = KnnFrame(pts, k)
     \/ knn = KnnFrame(TestPts, 2)
  /\ G = Idle /\ eig = Idle /\ spring = Idle /\ col = Idle /\ deg = Idle
  /\ gens = Idle /\ lpp = Idle

othersKnn == <<eig, spring, col, deg, gens, lpp>>

\* The distances between all pairs of points are computed.
KnnDistances ==
  /\ pc = "neighbor_graph"
  /\ knn' = [knn EXCEPT !.dist = pairwise_distances(knn.pts)]
  /\ pc' = "rows"
  /\ UNCHANGED <<G, othersKnn>>

\* Point i is connected to its k nearest neighbours, with binary weights.
KnnRow ==
  /\ pc = "rows"
  /\ knn.i < knn.n
  /\ LET nn == KNearest(knn.dist, knn.n, knn.i, knn.k)
     IN knn' = [knn EXCEPT !.adj[knn.i] = [j \in Vertices(knn.n) |->
                                             IF j \in nn THEN One ELSE 0],
                           !.i = @ + 1]
  /\ UNCHANGED <<pc, G, othersKnn>>

\* The Graph over the adjacency is returned (symmetrize=False: as it is).
KnnReturn ==
  /\ pc = "rows"
  /\ knn.i = knn.n
  /\ G' = from_adj_matrix(knn.adj, knn.n, FALSE, FALSE)
  /\ pc' = "returned"
  /\ UNCHANGED <<knn, othersKnn>>

NextKnn == KnnDistances \/ KnnRow \/ KnnReturn

SpecKnn == InitKnn /\ [][NextKnn]_vars

(***************************************************************************)
(* base.py Graph.degree.  A sum of weights is in fixed point; a count of   *)
(* nonzero entries is a plain number.  The result d is the vector          *)
(* np.asarray(d).ravel(), as a sequence: entry i of the source is d[i+1].  *)
(***************************************************************************)
DegV == 2

\* The entries of a weighted graph's matrix: no edge, 1/WeightScale and 1.
DegWeights == {0, 1, One}

RECURSIVE SumOver(_, _)
\* The sum of f over the vertices below n.
SumOver(f, n) == IF n = 0 THEN 0 ELSE f[n - 1] + SumOver(f, n - 1)

\* M.sum(axis=axis): axis 1 sums each row, axis 0 sums each column.
SumAxis(M, n, axis) ==
  [i \in 1..n |->
     SumOver([j \in Vertices(n) |-> IF axis = 1 THEN M[i - 1][j] ELSE M[j][i - 1]], n)]

\* adj != 0, as the 0/1 matrix that its sum counts.
NotZero(M, n) == [i \in Vertices(n) |-> [j \in Vertices(n) |-> IF M[i][j] # 0 THEN 1 ELSE 0]]

\* A faulty variant of degree: the axes are swapped.
degreeSwapped(g, kind, unweighted) ==
  LET axis == IF kind = "out" THEN 0 ELSE 1
      adj == MatrixOf(g)
  IN IF unweighted /\ is_weighted(g)
     THEN SumAxis(NotZero(adj, g.n), g.n, axis)
     ELSE SumAxis(adj, g.n, axis)

\* Graph.degree(kind, unweighted), base.py lines 54-63
degree(g, kind, unweighted) ==
  LET axis == IF kind = "out" THEN 1 ELSE 0
      adj == MatrixOf(g)
  IN IF unweighted /\ is_weighted(g)
     THEN SumAxis(NotZero(adj, g.n), g.n, axis)
     ELSE SumAxis(adj, g.n, axis)

InitDegree ==
  /\ pc = "degree"
  /\ \E kind \in Kinds, w \in BOOLEAN :
       \E A \in SquareMatrices(DegV, IF w THEN DegWeights ELSE {0, One}) :
         G = MakeGraph(kind, A, DegV, w)
  /\ deg = [kind |-> "out", unweighted |-> FALSE, d |-> <<>>]
  /\ eig = Idle /\ spring = Idle /\ col = Idle /\ knn = Idle /\ gens = Idle
  /\ lpp = Idle

othersDegree == <<eig, spring, col, knn, gens, lpp>>

\* A call G.degree(kind, unweighted).
CallDegree ==
  /\ pc = "degree"
  /\ \E kind \in {"out", "in"}, unweighted \in BOOLEAN :
       deg' = [kind |-> kind, unweighted |-> unweighted,
               d |-> degree(G, kind, unweighted)]
  /\ pc' = "returned"
  /\ UNCHANGED <<G, othersDegree>>

NextDegree == CallDegree

SpecDegree == InitDegree /\ [][NextDegree]_vars

(***************************************************************************)
(* base.py Graph.adj_list, a generator function.  A call builds a          *)
(* generator object and runs none of the body; the first next() runs       *)
(* `adj = self.matrix(dense=True, csr=True)` and every next() yields one   *)
(* row's nonzero indices, until the rows are used up.  gens is the         *)
(* sequence of the generator objects made so far:                          *)
(*   started  the body has run up to its first yield                       *)
(*   shared   adj is the graph's own storage (read when a row is yielded)  *)
(*   adj      the matrix that adj names, when it is not shared             *)
(*   pos      the number of rows yielded                                   *)
(*   yielded  the elements yielded, in order (a history field)             *)
(*   done     the generator has ended (StopIteration)                      *)
(*   dirty    the graph was mutated after the first next() (history)       *)
(* The graph, at first empty or with the one edge (0, V-1), is mutated in   *)
(* place, in between, by add_edges and symmetrize, modelled after the      *)
(* specification; muts counts the mutations.                               *)
(***************************************************************************)
AdjV == 2

MaxGens == 2

MaxMutations == 1

\* A faulty variant of NewGenerator: the matrix is read when adj_list() is called.
NewGeneratorEager(g) ==
  [started |-> FALSE, fetched |-> TRUE, shared |-> FALSE, adj |-> MatrixOf(g),
   pos |-> 0, yielded |-> <<>>, done |-> FALSE, dirty |-> FALSE]

\* adj_list(): the generator object, its body not yet entered.
NewGenerator(g) ==
  [started |-> FALSE, fetched |-> FALSE, shared |-> FALSE, adj |-> <<>>,
   pos |-> 0, yielded |-> <<>>, done |-> FALSE, dirty |-> FALSE]

\* The generator after base.py line 50, run by its first next().
Entered(gen, g) ==
  IF gen.started THEN gen
  ELSE IF gen.fetched THEN [gen EXCEPT !.started = TRUE]
  ELSE [gen EXCEPT !.started = TRUE, !.fetched = TRUE,
                   !.shared = MatrixIsShared(g, FALSE, {"dense", "csr"}),
                   !.adj = IF MatrixIsShared(g, FALSE, {"dense", "csr"})
                           THEN <<>> ELSE MatrixOf(g)]

\* The matrix that the generator's adj names.
ViewOf(gen, g) == IF gen.shared THEN MatrixOf(g) ELSE gen.adj

\* next(gen): the next row's nonzero indices are yielded, or the generator ends.
Resume(gen, g) ==
  LET e == Entered(gen, g)
  IN IF e.pos < g.n
     THEN [e EXCEPT !.pos = @ + 1,
                    !.yielded = Append(@, AdjRow(ViewOf(e, g), g.n, e.pos))]
     ELSE [e EXCEPT !.done = TRUE]

\* The graph after add_edges(from_idx, to_idx): a pair-backed graph appends
\* the pair, a matrix-backed graph sets the entry.
AddEdge(g, i, j) ==
  IF g.kind = "pairs" THEN [g EXCEPT !.store = Append(@, <<i, j, One>>)]
  ELSE [g EXCEPT !.store[i][j] = One]

\* The graph after symmetrize(method='max').
SymmetrizeMax(g) ==
  LET A == MatrixOf(g)
      S == [i \in Vertices(g.n) |-> [j \in Vertices(g.n) |-> Max(A[i][j], A[j][i])]]
  IN IF g.kind = "pairs" THEN [g EXCEPT !.store = PairsFrom(S, g.n, 0)]
     ELSE [g EXCEPT !.store = S]

\* The generators after a mutation of the graph.
Dirtied(gs) == [k \in DOMAIN gs |-> [gs[k] EXCEPT !.dirty = gs[k].started]]

InitAdj ==
  /\ pc = "adj_list"
  /\ \E kind \in Kinds, w \in {0, One} :
       G = MakeGraph(kind, [i \in Vertices(AdjV) |-> [j \in Vertices(AdjV) |->
                              IF i = 0 /\ j = AdjV - 1 THEN w ELSE 0]],
                     AdjV, FALSE)
  /\ gens = [list |-> <<>>, muts |-> 0]
  /\ eig = Idle /\ spring = Idle /\ col = Idle /\ knn = Idle /\ deg = Idle
  /\ lpp = Idle

othersAdj == <<pc, eig, spring, col, knn, deg, lpp>>

\* A call G.adj_list().
CallAdjList ==
  /\ Len(gens.list) < MaxGens
  /\ gens' = [gens EXCEPT !.list = Append(@, NewGenerator(G))]
  /\ UNCHANGED <<G, othersAdj>>

\* A next() on one of the generators that has not ended.
NextOfGenerator ==
  /\ \E k \in DOMAIN gens.list :
       /\ ~gens.list[k].done
       /\ gens' = [gens EXCEPT !.list[k] = Resume(gens.list[k], G)]
  /\ UNCHANGED <<G, othersAdj>>

\* A call G.add_edges(i, j) on an edge that is not in the graph.
CallAddEdges ==
  /\ gens.muts < MaxMutations
  /\ \E i, j \in Vertices(G.n) :
       /\ MatrixOf(G)[i][j] = 0
       /\ G' = AddEdge(G, i, j)
  /\ gens' = [list |-> Dirtied(gens.list), muts |-> gens.muts + 1]
  /\ UNCHANGED othersAdj

\* A call G.symmetrize(method='max') on a graph that is not symmetric.
CallSymmetrize ==
  /\ gens.muts < MaxMutations
  /\ MatrixOf(SymmetrizeMax(G)) # MatrixOf(G)
  /\ G' = SymmetrizeMax(G)
  /\ gens' = [list |-> Dirtied(gens.list), muts |-> gens.muts + 1]
  /\ UNCHANGED othersAdj

NextAdj == CallAdjList \/ NextOfGenerator \/ CallAddEdges \/ CallSymmetrize

SpecAdj == InitAdj /\ [][NextAdj]_vars

(***************************************************************************)
(* embed.py locality_preserving_projections, up to the call of _lapeig.    *)
(* Matrices are over the integers, where the products are exact: X is      *)
(* n x d, L is n x n and symmetric, Fplus is d x d.  A matrix is a record  *)
(* of its shape and its entries, at[i][j] for i in 1..rows, j in 1..cols.  *)
(***************************************************************************)
LppSize == 5

Mat(r, c, W) == [rows : {r}, cols : {c}, at : [1..r -> [1..c -> W]]]

\* A.dot(B)
dot(A, B) ==
  [rows |-> A.rows, cols |-> B.cols,
   at |-> [i \in 1..A.rows |-> [j \in 1..B.cols |->
             SumTo([k \in 1..A.cols |-> A.at[i][k] * B.at[k][j]], A.cols)]]]

\* A.T
Transpose(A) ==
  [rows |-> A.cols, cols |-> A.rows,
   at |-> [i \in 1..A.cols |-> [j \in 1..A.rows |-> A.at[j][i]]]]

\* The pairs i < j of 1..n.
UpperPairs(n) == {p \in (1..n) \X (1..n) : p[1] < p[2]}

\* The coordinate matrices: n x d over 0, 1.
CoordMatrices(n, d) == Mat(n, d, 0..1)

\* The Laplacians D - A of the undirected graphs on n vertices (integer, in
\* place of the normalized I - D^-1/2 A D^-1/2): symmetric, the degrees on
\* the diagonal and -1 for an edge.
Laplacians(n) ==
  {[rows |-> n, cols |-> n,
    at |-> [i \in 1..n |-> [j \in 1..n |->
              IF i = j THEN Cardinality({p \in E : p[1] = i \/ p[2] = i})
              ELSE IF <<i, j>> \in E \/ <<j, i>> \in E THEN 0 - 1 ELSE 0]]]
     : E \in SUBSET UpperPairs(n)}

\* The d x d factors: upper triangular over 0, 1 with a unit diagonal.
Factors(d) ==
  {[rows |-> d, cols |-> d,
    at |-> [i \in 1..d |-> [j \in 1..d |->
              IF i = j \/ <<i, j>> \in U THEN 1 ELSE 0]]]
     : U \in SUBSET UpperPairs(d)}

\* embed.py line 34: Fplus.dot(X.T.dot(L).dot(X)).dot(Fplus.T)
TTall(X, L, Fplus) == dot(dot(Fplus, dot(dot(Transpose(X), L), X)), Transpose(Fplus))

\* A faulty variant of TWide: the second factor is not transposed.
TWideNoTranspose(X, L, Fplus) ==
  dot(dot(dot(Fplus, Transpose(X)), L), dot(X, Fplus))

\* embed.py line 36: Fplus.dot(X.T).dot(L).dot(X.dot(Fplus.T))
TWide(X, L, Fplus) ==
  dot(dot(dot(Fplus, Transpose(X)), L), dot(X, Transpose(Fplus)))

\* embed.py lines 32-36: the order is chosen by the shape of X.
ProjectedT(X, L, Fplus) ==
  IF X.rows >= X.cols THEN TTall(X, L, Fplus) ELSE TWide(X, L, Fplus)

InitLpp ==
  /\ pc = "lpp"
  /\ \E n \in 1..LppSize : \E d \in 1..(LppSize - n) :
       \E X \in CoordMatrices(n, d), L \in Laplacians(n), F \in Factors(d) :
         lpp = [X |-> X, L |-> L, Fplus |-> F, T |-> <<>>, L2 |-> <<>>]
  /\ G = Idle /\ eig = Idle /\ spring = Idle /\ col = Idle /\ knn = Idle
  /\ deg = Idle /\ gens = Idle

othersLpp == <<G, eig, spring, col, knn, deg, gens>>

\* embed.py lines 28-38: T is computed in the order the shape selects, and
\* L = 0.5*(T+T.T), kept as T + T.T (twice its value), is handed to _lapeig.
LppProject ==
  /\ pc = "lpp"
  /\ \E T \in {ProjectedT(lpp.X, lpp.L, lpp.Fplus)} :
       lpp' = [lpp EXCEPT !.T = T,
                          !.L2 = [i \in 1..T.rows |-> [j \in 1..T.cols |->
                                    T.at[i][j] + T.at[j][i]]]]
  /\ pc' = "returned"
  /\ UNCHANGED othersLpp

NextLpp == LppProject

SpecLpp == InitLpp /\ [][NextLpp]_vars

(***************************************************************************)
(* Claims about _lapeig and laplacian_eigenmaps.                           *)
(***************************************************************************)
\* The eigenpairs of L at or above the threshold of the call.
AtOrAbove == {j \in 1..eig.L.n : eig.L.eig[j] >= eig.val_thresh}

\* C1: laplacian_eigenmaps(G, num_vecs=m) returns exactly m columns on every
\* solver path, however many eigenvalues fall below val_thresh.  Stated for
\* the calls in which L has at least m eigenpairs at or above the threshold,
\* the only ones in which m such columns exist.
CE_C1 ==
  (pc = "returned" /\ eig.given /\ Cardinality(AtOrAbove) >= eig.num_vecs)
    => Len(eig.embedding) = eig.num_vecs

\* C2: the eigenvalues returned with return_vals=True are non-decreasing, each
\* is at or above val_thresh, and the j-th returned column is the eigenvector
\* that the solver paired with the j-th returned eigenvalue.
Thm_C2 ==
  (pc = "returned" /\ eig.return_vals) =>
    /\ \A a, b \in 1..Len(eig.out_vals) : a < b => eig.out_vals[a] <= eig.out_vals[b]
    /\ \A a \in 1..Len(eig.out_vals) : eig.out_vals[a] >= eig.val_thresh
    /\ Len(eig.out_vals) = Len(eig.embedding)
    /\ \A a \in 1..Len(eig.embedding) : eig.L.eig[eig.embedding[a]] = eig.out_vals[a]

\* A call in which the sparse solver answered out of order, an eigenvalue was
\* below the threshold, and two different eigenvalues were returned.
Wit_C2 ==
  /\ pc = "returned" /\ eig.return_vals
  /\ Len(eig.solver_vals) >= 3
  /\ eig.solver_vals[1] > eig.solver_vals[2]
  /\ \E a \in 1..Len(eig.solver_vals) : eig.solver_vals[a] < eig.val_thresh
  /\ Len(eig.out_vals) >= 2 /\ eig.out_vals[1] < eig.out_vals[2]

\* C4: a failure of the sparse solver is recovered from: a warning is emitted
\* and the dense decomposition of the same matrix is computed; the call
\* raises only if the dense solver fails; a matrix that is not sparse never
\* reaches the sparse solver.
Thm_C4 ==
  /\ pc = "raised" => "eigh" \in eig.failed
  /\ ~issparse(eig.L) => "eigsh" \notin eig.tried
  /\ "eigsh" \in eig.failed =>
       /\ eig.warned
       /\ pc \in {"fallback", "solved", "returned", "raised"}
       /\ pc # "fallback" => "eigh" \in eig.tried
       /\ pc \in {"solved", "returned"} =>
            "eigh" \notin eig.failed /\ Len(eig.vals) = eig.L.n
  /\ eig.warned => "eigsh" \in eig.failed

\* A call that returned a result after the sparse solver failed.
Wit_C4 ==
  /\ pc = "returned" /\ "eigsh" \in eig.failed /\ eig.warned
  /\ Len(eig.embedding) >= 1


(***************************************************************************)
(* Claims about spring_layout.                                             *)
(***************************************************************************)
\* C3: spring_layout does not mutate the Graph passed to it: when it returns,
\* the adjacency entries and edge weights of G are what they were before the
\* call, for every backing variant.
CE_C3 == pc = "returned" => MatrixOf(G) = spring.G0

\* C9 as claimed: spring_layout ends after exactly `iterations` updates, and
\* the temperatures used form an equal-step decreasing sequence that starts at
\* initial_temp and ends at 0.
CE_C9 ==
  pc = "returned" =>
    /\ spring.steps = spring.iterations
    /\ Len(spring.used) = spring.iterations
    /\ \A j \in 1..(Len(spring.used) - 1) :
         /\ spring.used[j] > spring.used[j + 1]
         /\ spring.used[j] - spring.used[j + 1] = spring.used[1] - spring.used[2]
    /\ spring.iterations >= 1 =>
         /\ spring.used[1] = spring.initial_temp * spring.div
         /\ spring.used[Len(spring.used)] = 0

\* C9 as amended: spring_layout ends after exactly `iterations` updates (none
\* for iterations=0); the j-th update (j = 1..iterations) uses the temperature
\* initial_temp * (iterations + 2 - j) / (iterations + 1): equal steps of
\* initial_temp / (iterations + 1) down from initial_temp, the last one used
\* being 2 * initial_temp / (iterations + 1), above 0.
Thm_C9 ==
    /\ spring.steps <= spring.iterations
    /\ Len(spring.used) = spring.steps
    /\ spring.div = spring.iterations + 1
    /\ \A j \in 1..Len(spring.used) :
         spring.used[j] = spring.initial_temp * (spring.iterations + 2 - j)
    /\ pc = "returned" =>
         /\ spring.steps = spring.iterations
         /\ spring.iterations >= 1 =>
              /\ spring.used[1] = spring.initial_temp * spring.div
              /\ spring.used[spring.iterations] = 2 * spring.initial_temp
              /\ spring.used[spring.iterations] > 0

\* A layout of three iterations that has returned.
Wit_C9 ==
  /\ pc = "returned"
  /\ spring.iterations = 3 /\ spring.steps = 3
  /\ spring.used[1] > spring.used[2] /\ spring.used[2] > spring.used[3]


(***************************************************************************)
(* Claims about greedy_coloring.                                           *)
(***************************************************************************)
\* The colour the greedy rule gives vertex v of graph g, given the colours of
\* the vertices before it.
GreedyColourOf(g, v) ==
  LET lower == {u \in Vertices(col.n) : u < v /\ col.A[v][u] # 0}
  IN CHOOSE c \in 1..(col.n + 1) :
       /\ \A u \in lower : col.coloring[g][u] # c
       /\ \A b \in 1..(c - 1) : \E u \in lower : col.coloring[g][u] = b

OutEdges(i) == {j \in Vertices(G.n) : MatrixOf(G)[i][j] # 0}

\* C6 as claimed: for any point set and k, neighbor_graph(P, k=k,
\* symmetrize=False) gives each vertex exactly k outgoing edges, none of them
\* a self-edge.
CE_C6 ==
  pc = "returned" =>
    \A i \in Vertices(G.n) : Cardinality(OutEdges(i)) = knn.k /\ i \notin OutEdges(i)

\* C6 as amended: for any set of N points and any k <= N - 1 each vertex gets
\* exactly k outgoing edges, none a self-edge, to the points nearest to it,
\* ties among equal distances broken by index order; for k > N - 1 each vertex
\* gets the N - 1 edges to all the other points.
Thm_C6 ==
  pc = "returned" =>
    /\ G.n = Len(knn.pts)
    /\ \A i \in Vertices(G.n) :
         /\ i \notin OutEdges(i)
         /\ Cardinality(OutEdges(i)) = Min(knn.k, G.n - 1)
         /\ \A j \in OutEdges(i) : \A l \in Vertices(G.n) \ (OutEdges(i) \cup {i}) :
              LET dj == SqDist(knn.pts[i + 1], knn.pts[j + 1])
                  dl == SqDist(knn.pts[i + 1], knn.pts[l + 1])
              IN dj < dl \/ (dj = dl /\ j < l)

\* The graph of test_binary_weighting for k=2, symmetrize=False.
Wit_C6 ==
  /\ pc = "returned"
  /\ knn.pts = TestPts /\ knn.k = 2
  /\ \A i, j \in Vertices(G.n) :
       MatrixOf(G)[i][j] =
         << <<0, 1, 0, 1>>, <<1, 0, 1, 0>>, <<1, 1, 0, 0>>, <<1, 1, 0, 0>> >>[i + 1][j + 1] * One

(***************************************************************************)
(* Claims about degree.                                                    *)
(***************************************************************************)
\* The entries of row i (kind "out") or column i (kind "in") of the matrix.
Line(kind, i) ==
  [j \in Vertices(G.n) |-> IF kind = "out" THEN MatrixOf(G)[i][j] ELSE MatrixOf(G)[j][i]]

RECURSIVE LineSum(_, _)
LineSum(f, S) ==
  IF S = {} THEN 0 ELSE LET x == CHOOSE x \in S : TRUE IN f[x] + LineSum(f, S \ {x})

\* C7: degree(kind, unweighted) returns a vector of length V; entry i is the
\* sum of row i for kind='out' and of column i for kind='in'; with
\* unweighted=True on a graph that is_weighted() it is the count of the
\* nonzero entries of that row or column; on a graph that is not weighted
\* the flag has no effect.
Thm_C7 ==
  pc = "returned" =>
    /\ Len(deg.d) = G.n
    /\ \A i \in Vertices(G.n) :
         deg.d[i + 1] =
           IF deg.unweighted /\ G.weighted
           THEN Cardinality({j \in Vertices(G.n) : Line(deg.kind, i)[j] # 0})
           ELSE LineSum(Line(deg.kind, i), Vertices(G.n))
    /\ ~G.weighted => deg.d = degree(G, deg.kind, ~deg.unweighted)

\* A call degree('in', unweighted=True) on a weighted graph in which the
\* column counts differ from the column sums and from the row counts.
Wit_C7 ==
  /\ pc = "returned"
  /\ deg.kind = "in" /\ deg.unweighted /\ G.weighted
  /\ deg.d # degree(G, "in", FALSE)
  /\ deg.d # degree(G, "out", TRUE)


(***************************************************************************)
(* Claims about adj_list.                                                  *)
(***************************************************************************)
\* C8: every call of adj_list() yields exactly V elements and then ends,
\* element i being the indices j with a nonzero entry (i,j) of the graph's
\* matrix as it is when the sequence is consumed: a sequence consumed after a
\* mutation (even if adj_list() was called before it) reflects the mutated
\* graph, and each sequence starts at element 0 whatever the state of the
\* other sequences.
Thm_C8 ==
  \A k \in DOMAIN gens.list :
    LET gen == gens.list[k]
    IN /\ Len(gen.yielded) = gen.pos /\ gen.pos <= G.n
       /\ gen.done => gen.pos = G.n
       /\ ~gen.started => gen.pos = 0 /\ ~gen.done
       /\ ~gen.dirty =>
            \A i \in 1..Len(gen.yielded) :
              gen.yielded[i] = {j \in Vertices(G.n) : MatrixOf(G)[i - 1][j] # 0}

\* A second sequence, consumed to its end after a mutation while the first,
\* started before the mutation, is still partly consumed; the second one has
\* yielded a neighbour that the first one did not see.
Wit_C8 ==
  /\ Len(gens.list) = 2
  /\ gens.list[1].dirty /\ gens.list[1].pos = 1 /\ ~gens.list[1].done
  /\ gens.list[2].done /\ ~gens.list[2].dirty /\ gens.list[2].pos = G.n
  /\ gens.list[1].yielded[1] # gens.list[2].yielded[1]


(***************************************************************************)
(* Claims about locality_preserving_projections.                           *)
(***************************************************************************)
\* C10: the order of multiplication does not change the result: the matrix T
\* is both F (X'LX) F', the product of the n >= d branch, and
\* (F X') L (X F'), the product of the n < d branch, whichever was taken.
Thm_C10 ==
  pc = "returned" =>
    /\ lpp.T = TTall(lpp.X, lpp.L, lpp.Fplus)
    /\ lpp.T = TWide(lpp.X, lpp.L, lpp.Fplus)

\* A call with fewer points than dimensions whose T has entries of both signs.
Wit_C10 ==
  /\ pc = "returned"
  /\ lpp.X.rows < lpp.X.cols
  /\ \E i, j \in 1..lpp.T.rows : lpp.T.at[i][j] > 0
  /\ \E i, j \in 1..lpp.T.rows : lpp.T.at[i][j] < 0

=============================================================================
